---- MODULE Spec2Model ----
(***************************************************************************)
(* PDF uploader with text extraction / OCR fallback (main.py).             *)
(*                                                                         *)
(* State: the GridFS blob store, the `document` collection, the upload     *)
(* requests in flight (one record of handler locals per request), the      *)
(* outbound OCR calls and store writes each request has made.  The list    *)
(* and download handlers only read the stores: their responses are the     *)
(* operators list_documents and download_document of the current state.    *)
(*                                                                         *)
(* Text is modelled by TLA+ strings, so len(), slicing, strip() and join() *)
(* are computed on real character sequences.  ObjectIds are naturals; the  *)
(* str() / ObjectId() conversions are computed on 24-digit hex strings.    *)
(***************************************************************************)
EXTENDS Naturals, Sequences, FiniteSets, TLC

(***************************************************************************)
(* Bounds of the model.                                                    *)
(***************************************************************************)
\* Number of upload requests that arrive in one behaviour.
MaxUploads == 2

(***************************************************************************)
(* Program constants.                                                      *)
(***************************************************************************)
PDF_MIME == "application/pdf"
\* text_ok = len(text.strip()) > 20
TextOkThreshold == 20
\* preview = text[:300] + ("..." if len(text) > 300 else "")
UploadPreviewLen == 300
\* d["extracted_text_preview"] = txt[:200] + ("..." if len(txt) > 200 else "")
ListPreviewLen == 200
\* def list_documents(limit: int = 50)
ListLimitDefault == 50
\* ObjectId(...) accepts a string of 24 hexadecimal digits.
OidHexLen == 24

HTTP_OK == 200
HTTP_BAD_REQUEST == 400
HTTP_NOT_FOUND == 404
HTTP_SERVER_ERROR == 500

(***************************************************************************)
(* Strings.                                                                *)
(***************************************************************************)
Min(a, b) == IF a <= b THEN a ELSE b

\* Python s[:n]
Prefix(s, n) == IF Len(s) <= n THEN s ELSE SubSeq(s, 1, n)

Last(s) == SubSeq(s, Len(s), Len(s))

IsSpace(c) == c \in {" ", "\n", "\t", "\r"}

RECURSIVE LStrip(_)
LStrip(s) == IF s = "" THEN ""
             ELSE IF IsSpace(Head(s)) THEN LStrip(Tail(s)) ELSE s

RECURSIVE RStrip(_)
RStrip(s) == IF s = "" THEN ""
             ELSE IF IsSpace(Last(s)) THEN RStrip(SubSeq(s, 1, Len(s) - 1)) ELSE s

\* Python str.strip()
Strip(s) == RStrip(LStrip(s))

\* Python sep.join(parts)
RECURSIVE Join(_, _)
Join(parts, sep) == IF parts = << >> THEN ""
                    ELSE IF Len(parts) = 1 THEN parts[1]
                    ELSE parts[1] \o sep \o Join(Tail(parts), sep)

RECURSIVE Repeat(_, _)
Repeat(s, n) == IF n = 0 THEN "" ELSE s \o Repeat(s, n - 1)

\* Python truthiness of a str value.
Truthy(s) == s # ""

(***************************************************************************)
(* Optional[str]: None, or a string.                                       *)
(***************************************************************************)
None == [is |-> "none", v |-> ""]
Some(s) == [is |-> "some", v |-> s]
\* Variant: `if ocr_api_key is None`, which takes "" for a key.
OptPresent(x) == x.is = "some"

\* `not x` for an Optional[str] is true for None and for "".
OptTruthy(x) == x.is = "some" /\ Truthy(x.v)

(***************************************************************************)
(* bson.ObjectId: a natural number; str(oid) is its 24-digit lower-case    *)
(* hex form, ObjectId(s) parses such a string and raises on anything else. *)
(***************************************************************************)
HexDigits == "0123456789abcdef"
HexDigit(k) == SubSeq(HexDigits, k + 1, k + 1)

RECURSIVE ToHex(_, _)
ToHex(n, w) == IF w = 0 THEN "" ELSE ToHex(n \div 16, w - 1) \o HexDigit(n % 16)

\* str(ObjectId)
OidStr(oid) == ToHex(oid, OidHexLen)

HexValue(c) ==
    CASE c = "0" -> 0 [] c = "1" -> 1 [] c = "2" -> 2 [] c = "3" -> 3
      [] c = "4" -> 4 [] c = "5" -> 5 [] c = "6" -> 6 [] c = "7" -> 7
      [] c = "8" -> 8 [] c = "9" -> 9
      [] c \in {"a", "A"} -> 10 [] c \in {"b", "B"} -> 11
      [] c \in {"c", "C"} -> 12 [] c \in {"d", "D"} -> 13
      [] c \in {"e", "E"} -> 14 [] c \in {"f", "F"} -> 15
      [] OTHER -> 16

RECURSIVE AllHex(_)
AllHex(s) == s = "" \/ (HexValue(Head(s)) < 16 /\ AllHex(Tail(s)))

\* ObjectId(s) raises InvalidId unless s is 24 hex digits.
OidValid(s) == Len(s) = OidHexLen /\ AllHex(s)

RECURSIVE HexParse(_, _)
HexParse(s, acc) == IF s = "" THEN acc
                    ELSE HexParse(Tail(s), acc * 16 + HexValue(Head(s)))

\* ObjectId(s) for a valid s
OidParse(s) == HexParse(s, 0)

\* str(ObjectId) of the ids the model generates, computed once.
OidStrOf == [oid \in 1 .. 2 * MaxUploads + 1 |-> OidStr(oid)]

(***************************************************************************)
(* Uploaded files.  The bytes of a file are a token; what PyPDF2 makes of  *)
(* them is given by PdfPages: the parse fails, or yields pages, and each   *)
(* page's extract_text() returns text, returns None, or raises.            *)
(***************************************************************************)
X10 == "0123456789"
X20 == X10 \o X10
X100 == X20 \o X20 \o X20 \o X20 \o X20
X200 == X100 \o X100
X300 == X200 \o X100

PageText(s) == [r |-> "text", v |-> s]
PageNone == [r |-> "none", v |-> ""]
PageRaise == [r |-> "raise", v |-> ""]

Files == { "%PDF-corrupt", "%PDF-pages", "%PDF-20", "%PDF-21",
           "%PDF-200", "%PDF-201", "%PDF-300", "%PDF-301" }

\* PdfReader(BytesIO(file_bytes)) raises on these bytes.
PdfCorrupt(bytes) == bytes = "%PDF-corrupt"

\* reader.pages, each with the outcome of page.extract_text()
PdfPages(bytes) ==
    CASE bytes = "%PDF-pages" ->
            << PageText(" \n abc"), PageNone, PageRaise, PageText(""), PageText("de \n") >>
      [] bytes = "%PDF-20"  -> << PageText("  " \o X10), PageText(Repeat("y", 9) \o "\t\n") >>
      [] bytes = "%PDF-21"  -> << PageText(X20 \o "z") >>
      [] bytes = "%PDF-200" -> << PageText(X200 \o "\n") >>
      [] bytes = "%PDF-201" -> << PageText(X100), PageText(X100) >>
      [] bytes = "%PDF-300" -> << PageText(X300) >>
      [] bytes = "%PDF-301" -> << PageText(" " \o X300 \o "z ") >>
      [] OTHER -> << >>

\* The loop of extract_text_from_pdf: txt = page.extract_text() or "" (""
\* when it raises); only non-empty page texts are kept.
RECURSIVE PageTexts(_)
PageTexts(pages) ==
    IF pages = << >> THEN << >>
    ELSE LET p == Head(pages)
             txt == IF p.r = "text" THEN p.v ELSE ""
         IN  IF Truthy(txt) THEN << txt >> \o PageTexts(Tail(pages))
             ELSE PageTexts(Tail(pages))

extract_text_from_pdf(file_bytes) ==
    IF PdfCorrupt(file_bytes) THEN ""
    ELSE Strip(Join(PageTexts(PdfPages(file_bytes)), "\n"))

(***************************************************************************)
(* OCR provider.  A reply is what requests.post gives back.                *)
(***************************************************************************)
OcrReplies ==
    { [kind |-> "timeout", status |-> 0, json |-> FALSE, errored |-> FALSE, results |-> << >>],
      [kind |-> "http", status |-> 403, json |-> TRUE, errored |-> FALSE, results |-> << >>],
      [kind |-> "http", status |-> 200, json |-> FALSE, errored |-> FALSE, results |-> << >>],
      [kind |-> "http", status |-> 200, json |-> TRUE, errored |-> TRUE, results |-> << "junk" >>],
      [kind |-> "http", status |-> 200, json |-> TRUE, errored |-> FALSE, results |-> << >>],
      [kind |-> "http", status |-> 200, json |-> TRUE, errored |-> FALSE, results |-> << " \n" >>],
      [kind |-> "http", status |-> 200, json |-> TRUE, errored |-> FALSE,
       results |-> << " scan", "ned \n" >>],
      [kind |-> "http", status |-> 200, json |-> TRUE, errored |-> FALSE,
       results |-> << X300 \o "!" >>] }

\* ocr_with_ocrspace, given the provider's reply to the POST.
ocr_with_ocrspace(reply) ==
    IF reply.kind # "http" THEN ""                          \* requests raised
    ELSE IF reply.status >= 400 /\ reply.status < 600 THEN "" \* raise_for_status
    ELSE IF ~reply.json THEN ""                             \* r.json() raised
    ELSE IF reply.errored THEN ""
    ELSE Strip(Join(reply.results, "\n"))

(***************************************************************************)
(* State.                                                                  *)
(***************************************************************************)
VARIABLES
    dbAvailable,  \* database.db is not None (set once, at import)
    workload,     \* what the clients of this run send, and how many at once
    req,          \* req[r]: the r-th upload request: handler position and locals
    effects,      \* effects[r]: OCR calls, blob writes, inserts made by request r
    blobs,        \* GridFS: ObjectId -> stored file
    docs          \* the `document` collection, in insertion order

vars == << dbAvailable, workload, req, effects, blobs, docs >>

Reqs == 1 .. MaxUploads

NoBody == [detail |-> ""]

\* A request slot before the request arrives.
Idle == [ pc |-> "idle", file |-> "", filename |-> "", content_type |-> "",
          use_ocr |-> FALSE, ocr_api_key |-> None, size |-> 0, text |-> "",
          text_ok |-> FALSE, ocr_text |-> "", ocr_used |-> FALSE, file_id |-> 0,
          doc_id |-> "",
          status |-> 0, body |-> NoBody ]

NoEffects == [ocr |-> 0, blob |-> 0, doc |-> 0]

InFlightPcs == {"received", "ocr", "store", "insert", "respond"}

InFlight == { r \in Reqs : req[r].pc \in InFlightPcs }

\* The handler has returned (or raised): its locals are gone; what is kept is
\* what the client sent as the file and what it got back.
Returned(q, status, body) ==
    [ Idle EXCEPT !.pc = "done", !.file = q.file, !.filename = q.filename,
                  !.content_type = q.content_type, !.status = status, !.body = body ]

HTTPException(status, detail) == [status |-> status, body |-> [detail |-> detail]]

(***************************************************************************)
(* upload_document                                                         *)
(***************************************************************************)
\* The r-th upload request arrives: multipart file, use_ocr, ocr_api_key.
Receive(r, file, filename, content_type, use_ocr, ocr_api_key) ==
    /\ req[r].pc = "idle"
    /\ \A s \in Reqs : s < r => req[s].pc # "idle"
    /\ Cardinality(InFlight) < workload.parallel
    /\ req' = [req EXCEPT ![r] =
                 [ Idle EXCEPT !.pc = "received", !.file = file, !.filename = filename,
                               !.content_type = content_type, !.use_ocr = use_ocr,
                               !.ocr_api_key = ocr_api_key ]]
    /\ UNCHANGED << dbAvailable, workload, effects, blobs, docs >>

\* Variant: the content type only has to start with the PDF MIME type.
IsPdfPrefix(content_type) == Prefix(content_type, Len(PDF_MIME)) = PDF_MIME

\* file.content_type != "application/pdf" is false
IsPdf(content_type) == content_type = PDF_MIME

\* Variant: the threshold compared with >=.
TextOkAtLeast(text) == Len(Strip(text)) >= TextOkThreshold

\* text_ok = len(text.strip()) > 20
TextOk(text) == Len(Strip(text)) > TextOkThreshold

\* if use_ocr or not text_ok  (the OCR path)
OcrPath(use_ocr, text_ok) == use_ocr \/ ~text_ok

\* Content-type check, body read, native extraction and the OCR decision, up
\* to the point where the handler either calls the OCR client or goes on to
\* the stores.
Extract(r) ==
    LET q == req[r] IN
    /\ q.pc = "received"
    /\ IF ~IsPdf(q.content_type)
       THEN LET e == HTTPException(HTTP_BAD_REQUEST, "Only PDF files are supported")
            IN  req' = [req EXCEPT ![r] = Returned(q, e.status, e.body)]
       ELSE LET text == extract_text_from_pdf(q.file)
                text_ok == TextOk(text)
            IN  req' = [req EXCEPT ![r] =
                          [ q EXCEPT !.size = Len(q.file), !.text = text,
                                     !.text_ok = text_ok, !.ocr_used = FALSE,
                                     !.pc = IF OcrPath(q.use_ocr, text_ok)
                                               /\ OptTruthy(q.ocr_api_key)
                                            THEN "ocr" ELSE "store" ]]
    /\ UNCHANGED << dbAvailable, workload, effects, blobs, docs >>

\* Variant: the OCR result is taken even when it is empty.
UseOcrTextAlways(q, ocr_text) ==
    [q EXCEPT !.ocr_text = ocr_text, !.text = ocr_text, !.ocr_used = TRUE]

\* if ocr_text: text = ocr_text; ocr_used = True
UseOcrText(q, ocr_text) ==
    IF Truthy(ocr_text)
    THEN [q EXCEPT !.ocr_text = ocr_text, !.text = ocr_text, !.ocr_used = TRUE]
    ELSE [q EXCEPT !.ocr_text = ocr_text]

\* ocr_text = ocr_with_ocrspace(file_bytes, ocr_api_key), then the above.
CallOcr(r, reply) ==
    LET q == req[r]
        ocr_text == ocr_with_ocrspace(reply)
    IN
    /\ q.pc = "ocr"
    /\ effects' = [effects EXCEPT ![r].ocr = @ + 1]
    /\ req' = [req EXCEPT ![r] = [UseOcrText(q, ocr_text) EXCEPT !.pc = "store"]]
    /\ UNCHANGED << dbAvailable, workload, blobs, docs >>

\* ObjectId(): the k-th id generated while serving request r.  bson never
\* hands out an id twice; each request draws from a range of its own.
NewObjectId(r, k) == 2 * (r - 1) + k

\* Variant: a file already stored under the same name and bytes is not stored
\* again.
GridFsPutDedup(file_id, q) ==
    IF \E o \in DOMAIN blobs : blobs[o].data = q.file /\ blobs[o].filename = q.filename
    THEN blobs
    ELSE [ o \in DOMAIN blobs \cup {file_id} |->
             IF o = file_id
             THEN [data |-> q.file, filename |-> q.filename, contentType |-> q.content_type]
             ELSE blobs[o] ]

\* fs.put(file_bytes, filename=..., contentType=...)
GridFsPut(file_id, q) ==
    [ o \in DOMAIN blobs \cup {file_id} |->
        IF o = file_id
        THEN [data |-> q.file, filename |-> q.filename, contentType |-> q.content_type]
        ELSE blobs[o] ]

\* Variant: the blob write is put off until after the record is inserted.
PutBlobDeferred(r) ==
    LET q == req[r] IN
    /\ q.pc = "store"
    /\ IF ~dbAvailable
       THEN LET e == HTTPException(HTTP_SERVER_ERROR, "Database not configured")
            IN  req' = [req EXCEPT ![r] = Returned(q, e.status, e.body)]
       ELSE req' = [req EXCEPT ![r] = [q EXCEPT !.file_id = NewObjectId(r, 1),
                                                !.pc = "insert"]]
    /\ UNCHANGED << dbAvailable, workload, effects, blobs, docs >>

\* `if not text: text = ""` (text is a str: nothing changes), the db check and
\* the blob write.
PutBlob(r) ==
    LET q == req[r] IN
    /\ q.pc = "store"
    /\ IF ~dbAvailable
       THEN LET e == HTTPException(HTTP_SERVER_ERROR, "Database not configured")
            IN  /\ req' = [req EXCEPT ![r] = Returned(q, e.status, e.body)]
                /\ UNCHANGED << effects, blobs >>
       ELSE LET file_id == NewObjectId(r, 1)
            IN  /\ blobs' = GridFsPut(file_id, q)
                /\ effects' = [effects EXCEPT ![r].blob = @ + 1]
                /\ req' = [req EXCEPT ![r] = [q EXCEPT !.file_id = file_id, !.pc = "insert"]]
    /\ UNCHANGED << dbAvailable, workload, docs >>

\* DocumentSchema(filename=..., ..., file_id=str(file_id))
DocumentSchema(q) ==
    [ filename |-> q.filename, content_type |-> q.content_type, size |-> q.size,
      extracted_text |-> q.text, ocr_used |-> q.ocr_used, file_id |-> OidStrOf[q.file_id] ]

\* database.create_document: the record's fields plus a fresh _id.
NewRecord(id, doc) ==
    [ f \in DOMAIN doc \cup {"_id"} |-> IF f = "_id" THEN id ELSE doc[f] ]

\* doc_id = create_document("document", doc)
InsertDoc(r) ==
    LET q == req[r] IN
    /\ q.pc = "insert"
    /\ LET inserted_id == NewObjectId(r, 2)
       IN  /\ docs' = Append(docs, NewRecord(inserted_id, DocumentSchema(q)))
           /\ req' = [req EXCEPT ![r] = [q EXCEPT !.doc_id = OidStrOf[inserted_id],
                                                  !.pc = "respond"]]
    /\ effects' = [effects EXCEPT ![r].doc = @ + 1]
    /\ UNCHANGED << dbAvailable, workload, blobs >>

\* Variant: the marker is added from 300 characters on.
UploadPreviewAtLeast(text) ==
    IF Truthy(text)
    THEN Prefix(text, UploadPreviewLen) \o (IF Len(text) >= UploadPreviewLen THEN "..." ELSE "")
    ELSE ""

\* preview = (text[:300] + ("..." if len(text) > 300 else "")) if text else ""
UploadPreview(text) ==
    IF Truthy(text)
    THEN Prefix(text, UploadPreviewLen) \o (IF Len(text) > UploadPreviewLen THEN "..." ELSE "")
    ELSE ""

UploadResponse(q) ==
    [ id |-> q.doc_id, filename |-> q.filename, size |-> q.size,
      ocr_used |-> q.ocr_used, extracted_text_preview |-> UploadPreview(q.text) ]

\* return UploadResponse(...)
Respond(r) ==
    LET q == req[r] IN
    /\ q.pc = "respond"
    /\ req' = [req EXCEPT ![r] = Returned(q, HTTP_OK, UploadResponse(q))]
    /\ UNCHANGED << dbAvailable, workload, effects, blobs, docs >>

\* The handler dies where it stands (the process crashes, or a store call
\* raises): nothing is rolled back.
Abort(r) ==
    /\ req[r].pc \in InFlightPcs
    /\ req' = [req EXCEPT ![r] = [Idle EXCEPT !.pc = "aborted"]]
    /\ UNCHANGED << dbAvailable, workload, effects, blobs, docs >>

(***************************************************************************)
(* list_documents                                                          *)
(***************************************************************************)
\* database.get_documents("document", {}, limit): up to `limit` records.
get_documents(limit) == SubSeq(docs, 1, Min(limit, Len(docs)))

\* Variant: the list uses the upload's preview length.
ListPreviewAsUpload(txt) ==
    Prefix(txt, UploadPreviewLen) \o (IF Len(txt) > UploadPreviewLen THEN "..." ELSE "")

\* txt[:200] + ("..." if len(txt) > 200 else "")
ListPreview(txt) ==
    Prefix(txt, ListPreviewLen) \o (IF Len(txt) > ListPreviewLen THEN "..." ELSE "")

\* d.get("file_id") is truthy
HasFileId(d) == "file_id" \in DOMAIN d /\ Truthy(d.file_id)

\* serialize(d): adds id, normalises file_id, replaces extracted_text by its
\* preview.  A missing value (Python None) is written "".
serialize(d) ==
    LET keep == IF "extracted_text" \in DOMAIN d
                THEN (DOMAIN d \ {"extracted_text"}) \cup {"extracted_text_preview"}
                ELSE DOMAIN d
    IN  [ f \in keep \cup {"id", "file_id"} |->
            CASE f = "id" -> OidStrOf[d._id]
              [] f = "file_id" -> IF HasFileId(d) THEN d.file_id ELSE ""
              [] f = "extracted_text_preview" /\ "extracted_text" \in DOMAIN d ->
                     ListPreview(d.extracted_text)
              [] OTHER -> d[f] ]

\* Without a database get_documents fails: storage unavailable is a server error.
list_documents(limit) ==
    IF ~dbAvailable
    THEN [status |-> HTTP_SERVER_ERROR, items |-> << >>]
    ELSE LET found == get_documents(limit)
         IN  [status |-> HTTP_OK, items |-> [i \in 1 .. Len(found) |-> serialize(found[i])]]

\* GET /api/documents?limit=N is served: the stores are read, nothing is written.
List(limit) ==
    /\ list_documents(limit).status \in {HTTP_OK, HTTP_SERVER_ERROR}
    /\ UNCHANGED vars

(***************************************************************************)
(* download_document                                                       *)
(***************************************************************************)
ErrorResponse(status, detail) ==
    [ status |-> status, detail |-> detail, data |-> "", media_type |-> "",
      disposition |-> "" ]

NotFound == ErrorResponse(HTTP_NOT_FOUND, "Document not found")

\* db["document"].find_one({"_id": oid}): the matching records
FindOne(oid) == { i \in 1 .. Len(docs) : docs[i]._id = oid }

\* fs.get(oid) on a stored blob; StreamingResponse(gridout, media_type=..., headers=...)
StreamingResponse(doc, gridout) ==
    [ status |-> HTTP_OK, detail |-> "", data |-> gridout.data,
      media_type |-> IF "content_type" \in DOMAIN doc THEN doc.content_type ELSE PDF_MIME,
      disposition |-> "attachment; filename="
                        \o (IF "filename" \in DOMAIN doc THEN doc.filename ELSE "document.pdf") ]

\* The identifiers clients ask to download.
DownloadIds == { OidStrOf[n] : n \in 1 .. 2 * MaxUploads + 1 }
                 \cup { "", "latest", Repeat("z", OidHexLen) }

\* ObjectId(s) of the strings that occur in a run, computed once: the id, or 0
\* where ObjectId(s) raises InvalidId.
IdStrings == DownloadIds \cup { "" }
ObjectIdOf == [s \in IdStrings |-> IF OidValid(s) THEN OidParse(s) ELSE 0]

\* Variant: the blob is fetched by the record's id instead of its file_id.
download_by_record_id(doc_id) ==
    IF ~dbAvailable THEN ErrorResponse(HTTP_SERVER_ERROR, "Database not configured")
    ELSE IF ObjectIdOf[doc_id] = 0 THEN NotFound
    ELSE IF FindOne(ObjectIdOf[doc_id]) = {} THEN NotFound
    ELSE LET doc == docs[CHOOSE i \in FindOne(ObjectIdOf[doc_id]) : TRUE]
         IN  IF ~HasFileId(doc) THEN NotFound
             ELSE IF ObjectIdOf[doc_id] \notin DOMAIN blobs THEN NotFound
             ELSE StreamingResponse(doc, blobs[ObjectIdOf[doc_id]])

\* Variant: ObjectId(doc_id) is evaluated outside the try block, so a malformed
\* identifier is an unhandled error.
download_unguarded_id(doc_id) ==
    IF ~dbAvailable THEN ErrorResponse(HTTP_SERVER_ERROR, "Database not configured")
    ELSE IF ObjectIdOf[doc_id] = 0
         THEN ErrorResponse(HTTP_SERVER_ERROR, "Internal Server Error")
    ELSE IF FindOne(ObjectIdOf[doc_id]) = {} THEN NotFound
    ELSE LET doc == docs[CHOOSE i \in FindOne(ObjectIdOf[doc_id]) : TRUE]
         IN  IF ~HasFileId(doc) THEN NotFound
             ELSE IF ObjectIdOf[doc.file_id] = 0 THEN NotFound
             ELSE IF ObjectIdOf[doc.file_id] \notin DOMAIN blobs THEN NotFound
             ELSE StreamingResponse(doc, blobs[ObjectIdOf[doc.file_id]])

download_document(doc_id) ==
    IF ~dbAvailable THEN ErrorResponse(HTTP_SERVER_ERROR, "Database not configured")
    ELSE IF ObjectIdOf[doc_id] = 0 THEN NotFound              \* ObjectId(doc_id) raises
    ELSE IF FindOne(ObjectIdOf[doc_id]) = {} THEN NotFound    \* not doc
    ELSE LET doc == docs[CHOOSE i \in FindOne(ObjectIdOf[doc_id]) : TRUE]
         IN  IF ~HasFileId(doc) THEN NotFound                 \* not doc.get("file_id")
             ELSE IF ObjectIdOf[doc.file_id] = 0 THEN NotFound     \* ObjectId(...) raises
             ELSE IF ObjectIdOf[doc.file_id] \notin DOMAIN blobs THEN NotFound  \* NoFile
             ELSE StreamingResponse(doc, blobs[ObjectIdOf[doc.file_id]])

\* GET /api/documents/{id}/download is served: the stores are read, nothing is
\* written.
Download(doc_id) ==
    /\ download_document(doc_id).status \in {HTTP_OK, HTTP_NOT_FOUND, HTTP_SERVER_ERROR}
    /\ UNCHANGED vars

(***************************************************************************)
(* What clients send.                                                      *)
(***************************************************************************)
ContentTypes == { PDF_MIME, "image/png", "application/pdf; charset=binary" }

Keys == { None, Some(""), Some("K81234567") }

Limits == { 1, MaxUploads, ListLimitDefault }

\* One request at a time, any parameters, over one file.
SeqWorkloads ==
    { [ files |-> {f}, names |-> {"scan.pdf"}, types |-> ContentTypes, flags |-> BOOLEAN,
        keys |-> Keys, replies |-> OcrReplies, parallel |-> 1 ] : f \in Files }

\* All requests at once, over two short files.
ConcWorkload ==
    [ files |-> {"%PDF-pages", "%PDF-21"}, names |-> {"scan.pdf"},
      types |-> {PDF_MIME, "image/png"}, flags |-> {TRUE}, keys |-> {None, Some("K81234567")},
      replies |-> { y \in OcrReplies : y.kind = "timeout" \/ Len(y.results) = 2 },
      parallel |-> MaxUploads ]

\* One request at a time over one file, while an administrator edits the stores.
AdminWorkload ==
    [ files |-> {"%PDF-21"}, names |-> {"scan.pdf"}, types |-> {PDF_MIME},
      flags |-> BOOLEAN, keys |-> {None, Some("K81234567")},
      replies |-> { y \in OcrReplies : y.kind = "timeout" }, parallel |-> 1 ]

(***************************************************************************)
(* External administration of the stores (there is no delete endpoint).    *)
(***************************************************************************)
AdminDeleteBlob(oid) ==
    /\ oid \in DOMAIN blobs
    /\ blobs' = [o \in DOMAIN blobs \ {oid} |-> blobs[o]]
    /\ UNCHANGED << dbAvailable, workload, req, effects, docs >>

AdminUnsetFileId(i) ==
    /\ i \in 1 .. Len(docs)
    /\ "file_id" \in DOMAIN docs[i]
    /\ docs' = [docs EXCEPT ![i] = [f \in DOMAIN docs[i] \ {"file_id"} |-> docs[i][f]]]
    /\ UNCHANGED << dbAvailable, workload, req, effects, blobs >>

(***************************************************************************)
(* Specifications.                                                         *)
(***************************************************************************)
InitStores ==
    /\ dbAvailable \in BOOLEAN
    /\ req = [r \in Reqs |-> Idle]
    /\ effects = [r \in Reqs |-> NoEffects]
    /\ blobs = << >>
    /\ docs = << >>

Init == InitStores /\ workload \in SeqWorkloads

InitConc == InitStores /\ workload = ConcWorkload

Next ==
    \/ \E r \in Reqs, file \in workload.files, filename \in workload.names,
          content_type \in workload.types, use_ocr \in workload.flags,
          ocr_api_key \in workload.keys :
            Receive(r, file, filename, content_type, use_ocr, ocr_api_key)
    \/ \E r \in Reqs : Extract(r)
    \/ \E r \in Reqs, reply \in workload.replies : CallOcr(r, reply)
    \/ \E r \in Reqs : PutBlob(r)
    \/ \E r \in Reqs : InsertDoc(r)
    \/ \E r \in Reqs : Respond(r)
    \/ \E r \in Reqs : Abort(r)
    \/ \E limit \in Limits : List(limit)
    \/ \E doc_id \in DownloadIds : Download(doc_id)

\* Requests handled one after another, with every combination of parameters.
Spec == Init /\ [][Next]_vars

\* Requests handled concurrently.
SpecConc == InitConc /\ [][Next]_vars

InitAdmin == InitStores /\ workload = AdminWorkload

NextAdmin ==
    \/ Next
    \/ \E oid \in 1 .. 2 * MaxUploads : AdminDeleteBlob(oid)
    \/ \E i \in 1 .. MaxUploads : AdminUnsetFileId(i)

\* Requests handled one after another while the stores are edited from outside.
SpecAdmin == InitAdmin /\ [][NextAdmin]_vars

(***************************************************************************)
(* Vocabulary of the properties.  These are stated on their own terms, not *)
(* through the operators that model the handlers.                          *)
(***************************************************************************)
\* The handler of request r is past the native extraction.
Extracted(r) == req[r].pc \in {"ocr", "store", "insert", "respond"}

\* The OCR decision (and the OCR call, if any) of request r is behind it.
Decided(r) == req[r].pc \in {"store", "insert", "respond"}

\* The text native extraction yields for the file of request r.
Native(r) == extract_text_from_pdf(req[r].file)

\* An API key was supplied: present and not empty.
KeySupplied(q) == q.ocr_api_key.is = "some" /\ q.ocr_api_key.v # ""

\* The caller asked for OCR, or the native text has at most 20 characters.
WantsOcr(r) == req[r].use_ocr \/ Len(Native(r)) <= 20

\* The records of the collection whose id prints as id_str.
DocsWithId(id_str) == { i \in 1 .. Len(docs) : OidStrOf[docs[i]._id] = id_str }
DocOf(id_str) == docs[CHOOSE i \in DocsWithId(id_str) : TRUE]

\* The blobs whose id prints as id_str.
BlobsWithId(id_str) == { o \in DOMAIN blobs : OidStrOf[o] = id_str }

\* t cut to n characters, with the three-dot marker if something was cut.
Truncated(t, n) == IF Len(t) <= n THEN t ELSE SubSeq(t, 1, n) \o "..."

\* Request r has returned a success response.
Succeeded(r) == req[r].pc = "done" /\ req[r].status = 200

(***************************************************************************)
(* C1. An upload whose declared content type is not exactly                *)
(* "application/pdf" ends with a 400 response; at no point of the request  *)
(* is the OCR client called, a blob written or a record inserted.          *)
(***************************************************************************)
C1_NonPdfRejected ==
    \A r \in Reqs :
        LET q == req[r] IN
        (q.pc \in InFlightPcs \cup {"done"} /\ q.content_type # "application/pdf") =>
            /\ q.pc \in {"received", "done"}
            /\ q.pc = "done" => q.status = 400
            /\ effects[r] = [ocr |-> 0, blob |-> 0, doc |-> 0]
            /\ \A o \in DOMAIN blobs : blobs[o].contentType = "application/pdf"
            /\ \A i \in 1 .. Len(docs) : docs[i].content_type = "application/pdf"
            /\ Cardinality(DOMAIN blobs)
                 = Cardinality({ x \in Reqs : effects[x].blob = 1 /\ x # r })
            /\ Len(docs) = Cardinality({ x \in Reqs : effects[x].doc = 1 /\ x # r })

\* A rejected near-miss content type, after an earlier upload was stored.
C1_Witness ==
    \E r \in Reqs :
        /\ req[r].pc = "done" /\ req[r].status = 400
        /\ req[r].content_type = "application/pdf; charset=binary"
        /\ Len(docs) = 1 /\ Cardinality(DOMAIN blobs) = 1

(***************************************************************************)
(* C2. Whatever the interleaving of uploads, and wherever a handler dies,  *)
(* every record of the collection has a file_id that names a blob that was *)
(* written: a request inserts its record only after it wrote its blob.     *)
(* What can be left behind is a blob that no record references.            *)
(***************************************************************************)
C2_RecordsReferenceBlobs ==
    /\ \A i \in 1 .. Len(docs) :
          /\ "file_id" \in DOMAIN docs[i]
          /\ BlobsWithId(docs[i].file_id) # {}
    /\ \A r \in Reqs : effects[r].doc <= effects[r].blob

\* A handler died between its two writes, next to a completed upload: an
\* orphaned blob beside a record with its blob.
C2_Witness ==
    /\ \E r \in Reqs : req[r].pc = "aborted" /\ effects[r].blob = 1 /\ effects[r].doc = 0
    /\ \E o \in DOMAIN blobs : \A i \in 1 .. Len(docs) : docs[i].file_id # OidStrOf[o]
    /\ Len(docs) >= 1

(***************************************************************************)
(* C3. When the native text is longer than 20 characters and use_ocr is    *)
(* false, the OCR client is never invoked (key or no key), ocr_used is     *)
(* false in the stored record and in the response, and the stored text is  *)
(* the native text.  The OCR client is only ever invoked on the OCR path   *)
(* (use_ocr, or native text of at most 20 characters), and with a key      *)
(* supplied that path always leads to the OCR client.                      *)
(***************************************************************************)
C3_NoOcrOnGoodText ==
    \A r \in Reqs :
        LET q == req[r] IN
        Extracted(r) =>
            /\ (q.pc = "ocr" \/ effects[r].ocr > 0) => WantsOcr(r)
            /\ (WantsOcr(r) /\ KeySupplied(q)) => (q.pc = "ocr" \/ effects[r].ocr = 1)
            /\ (~q.use_ocr /\ Len(Native(r)) > 20) =>
                  /\ q.pc # "ocr"
                  /\ effects[r].ocr = 0
                  /\ ~q.ocr_used
                  /\ q.text = Native(r)
                  /\ q.pc = "respond" =>
                        /\ DocsWithId(q.doc_id) # {}
                        /\ DocOf(q.doc_id).ocr_used = FALSE
                        /\ DocOf(q.doc_id).extracted_text = Native(r)
                        /\ UploadResponse(q).ocr_used = FALSE

\* A stored upload with a key, long native text and use_ocr off.
C3_Witness ==
    \E r \in Reqs :
        /\ req[r].pc = "respond" /\ ~req[r].use_ocr /\ KeySupplied(req[r])
        /\ Len(Native(r)) = 21
        /\ effects[r].ocr = 0

(***************************************************************************)
(* C4. On the OCR path with a non-empty API key the OCR client is called   *)
(* exactly once.  If it returns non-empty text, that text is what is       *)
(* stored and ocr_used is true; if it returns the empty string, the native *)
(* text is stored and ocr_used is false.  For every stored record,         *)
(* ocr_used is true iff OCR output replaced the native extraction.         *)
(***************************************************************************)
C4_OcrOutcomeStored ==
    \A r \in Reqs :
        LET q == req[r] IN
        /\ (Extracted(r) /\ WantsOcr(r) /\ KeySupplied(q)) =>
              /\ q.pc = "ocr" => effects[r].ocr = 0
              /\ Decided(r) =>
                    /\ effects[r].ocr = 1
                    /\ IF q.ocr_text # ""
                       THEN q.text = q.ocr_text /\ q.ocr_used
                       ELSE q.text = Native(r) /\ ~q.ocr_used
        /\ q.pc = "respond" =>
              /\ DocsWithId(q.doc_id) # {}
              /\ LET d == DocOf(q.doc_id) IN
                    /\ d.extracted_text = q.text
                    /\ d.ocr_used = q.ocr_used
                    /\ UploadResponse(q).ocr_used = d.ocr_used
                    /\ d.ocr_used <=> /\ effects[r].ocr = 1
                                      /\ q.ocr_text # ""
                                      /\ d.extracted_text = q.ocr_text
                    /\ ~d.ocr_used => d.extracted_text = Native(r)

\* Both outcomes of the OCR call on stored uploads: OCR text replaced a short
\* native text, and a failed OCR call left the native text in place.
C4_Witness ==
    \E r, s \in Reqs :
        /\ req[r].pc = "respond" /\ effects[r].ocr = 1 /\ ~req[r].use_ocr
        /\ DocOf(req[r].doc_id).ocr_used
        /\ DocOf(req[r].doc_id).extracted_text = "scan\nned"
        /\ Native(r) # "scan\nned"
        /\ Succeeded(s) /\ effects[s].ocr = 1 /\ ~req[s].body.ocr_used

(***************************************************************************)
(* C5 (as amended). On the OCR path with no API key (absent or empty) the  *)
(* OCR client is not called, ocr_used is false and the stored text is the  *)
(* native text, however short; the request does not fail for want of a     *)
(* key: when the database is configured it ends with a success response    *)
(* and its blob and record are persisted, and when the database is not     *)
(* configured it ends with the 500 response every upload gets.             *)
(***************************************************************************)
\* Request r is a PDF upload on the OCR path without a key.
NoKeyOcrPath(r) ==
    /\ req[r].pc \in InFlightPcs
    /\ req[r].content_type = "application/pdf"
    /\ WantsOcr(r)
    /\ ~KeySupplied(req[r])

\* The blob and the record of request r are in the stores, with the native text.
PersistedNative(r) ==
    /\ \E o \in DOMAIN blobs : blobs[o].data = req[r].file /\ o = req[r].file_id
    /\ \E i \in 1 .. Len(docs) :
          /\ OidStrOf[docs[i]._id] = req[r].doc_id
          /\ docs[i].file_id = OidStrOf[req[r].file_id]
          /\ docs[i].extracted_text = Native(r)
          /\ docs[i].ocr_used = FALSE

C5_NoKeyState ==
    \A r \in Reqs :
        (NoKeyOcrPath(r) /\ Extracted(r)) =>
            /\ req[r].pc # "ocr"
            /\ effects[r].ocr = 0
            /\ ~req[r].ocr_used
            /\ req[r].text = Native(r)
            /\ req[r].pc = "respond" => PersistedNative(r)

\* How such a request returns.
C5_NoKeyReturn ==
    \A r \in Reqs :
        (NoKeyOcrPath(r) /\ req'[r].pc = "done") =>
            IF dbAvailable
            THEN /\ req[r].pc = "respond" /\ PersistedNative(r)
                 /\ req'[r].status = 200
                 /\ req'[r].body.ocr_used = FALSE
                 /\ UNCHANGED << blobs, docs >>
            ELSE req'[r].status = 500 /\ blobs' = << >> /\ docs' = << >>

C5_NoKeyKeepsNative == []C5_NoKeyState /\ [][C5_NoKeyReturn]_vars

\* A stored upload whose native text is empty and that had no key.
C5_Witness ==
    \E r \in Reqs :
        /\ NoKeyOcrPath(r) /\ req[r].pc = "respond"
        /\ req[r].ocr_api_key = Some("")
        /\ Native(r) = ""
        /\ PersistedNative(r)

\* C5 as stated: such a request always ends with its blob and its record
\* persisted.
C5_AsStated ==
    [][\A r \in Reqs :
          (NoKeyOcrPath(r) /\ req'[r].pc = "done") =>
              (req[r].pc = "respond" /\ PersistedNative(r) /\ req'[r].status = 200)]_vars

(***************************************************************************)
(* C6. Whatever uploads, lists and downloads come in between, downloading  *)
(* the identifier a successful upload returned yields the bytes that were  *)
(* uploaded, with the content type stored in the record (that of the       *)
(* upload); and a download that succeeded keeps yielding the same result.  *)
(***************************************************************************)
C6_RoundTripState ==
    \A r \in Reqs :
        Succeeded(r) =>
            LET out == download_document(req[r].body.id) IN
            /\ out.status = 200
            /\ out.data = req[r].file
            /\ out.media_type = req[r].content_type
            /\ DocsWithId(req[r].body.id) # {}
            /\ out.media_type = DocOf(req[r].body.id).content_type
            /\ out.disposition = "attachment; filename=" \o req[r].filename

C6_DownloadStable ==
    \A doc_id \in DownloadIds :
        download_document(doc_id).status = 200 =>
            download_document(doc_id)' = download_document(doc_id)

C6_DownloadRoundTrip == []C6_RoundTripState /\ [][C6_DownloadStable]_vars

\* Two successful uploads of different files, each downloadable as uploaded.
C6_Witness ==
    \E r, s \in Reqs :
        /\ Succeeded(r) /\ Succeeded(s)
        /\ req[r].file # req[s].file
        /\ download_document(req[r].body.id).data = req[r].file
        /\ download_document(req[s].body.id).data = req[s].file

(***************************************************************************)
(* C7 (as amended). With the database configured, every download that      *)
(* cannot be resolved gets one and the same 404 response, whatever the     *)
(* cause: a malformed identifier, no record, a record without file_id, a   *)
(* file_id whose blob is missing.  With the database not configured every  *)
(* download gets a 500 response instead.                                   *)
(***************************************************************************)
\* doc_id is well-formed, names a record, and the record names a stored blob.
Resolvable(doc_id) ==
    /\ OidValid(doc_id)
    /\ \E i \in 1 .. Len(docs) :
          /\ docs[i]._id = OidParse(doc_id)
          /\ "file_id" \in DOMAIN docs[i]
          /\ OidValid(docs[i].file_id)
          /\ OidParse(docs[i].file_id) \in DOMAIN blobs

The404 ==
    [ status |-> 404, detail |-> "Document not found", data |-> "", media_type |-> "",
      disposition |-> "" ]

C8_ListPreviews ==
    \A limit \in Limits :
        LET out == list_documents(limit) IN
        /\ Len(out.items) <= limit
        /\ Len(out.items) <= Len(docs)
        /\ dbAvailable => (Len(out.items) = limit \/ Len(out.items) = Len(docs))
        /\ \A i \in 1 .. Len(out.items) :
              /\ "extracted_text" \notin DOMAIN out.items[i]
              /\ "extracted_text_preview" \in DOMAIN out.items[i]
              /\ out.items[i].id = OidStrOf[docs[i]._id]
              /\ out.items[i].extracted_text_preview
                   = Truncated(docs[i].extracted_text, 200)

\* A list cut at its limit whose item carries a cut preview.
C8_Witness ==
    /\ Len(docs) = 2
    /\ Len(list_documents(1).items) = 1
    /\ Len(docs[1].extracted_text) = 201
    /\ Len(list_documents(1).items[1].extracted_text_preview) = 203

(***************************************************************************)
(* C9. The preview in the response of a successful upload is computed from *)
(* the text that was stored: the text itself when it has at most 300       *)
(* characters ("" for empty text), its first 300 characters followed by    *)
(* "..." when it is longer.                                                *)
(***************************************************************************)
C9_UploadPreview ==
    \A r \in Reqs :
        Succeeded(r) =>
            /\ DocsWithId(req[r].body.id) # {}
            /\ req[r].body.extracted_text_preview
                 = Truncated(DocOf(req[r].body.id).extracted_text, 300)

\* A successful upload whose stored text, from OCR, has 301 characters.
C9_Witness ==
    \E r \in Reqs :
        /\ Succeeded(r) /\ req[r].body.ocr_used
        /\ Len(DocOf(req[r].body.id).extracted_text) = 301
        /\ Len(req[r].body.extracted_text_preview) = 303

(***************************************************************************)
(* C10. Under any interleaving of uploads each request writes at most one  *)
(* blob and inserts at most one record, and a successful one exactly one   *)
(* of each: the stores hold exactly the blobs and records the requests     *)
(* wrote, the records have pairwise distinct ids, and the record of a      *)
(* successful upload references the blob of that upload and of no other,   *)
(* identical files included.  Serving lists and downloads changes neither  *)
(* store.                                                                  *)
(***************************************************************************)
C10_IndependentUploads ==
    /\ \A r \in Reqs :
          /\ effects[r].blob <= 1 /\ effects[r].doc <= 1
          /\ Succeeded(r) =>
                /\ effects[r].blob = 1 /\ effects[r].doc = 1
                /\ Cardinality(DocsWithId(req[r].body.id)) = 1
                /\ LET d == DocOf(req[r].body.id) IN
                      /\ Cardinality(BlobsWithId(d.file_id)) = 1
                      /\ \A o \in BlobsWithId(d.file_id) :
                            /\ blobs[o].data = req[r].file
                            /\ blobs[o].filename = req[r].filename
                      /\ \A i \in 1 .. Len(docs) :
                            docs[i].file_id = d.file_id => docs[i]._id = d._id
    /\ Cardinality(DOMAIN blobs) = Cardinality({ r \in Reqs : effects[r].blob = 1 })
    /\ Len(docs) = Cardinality({ r \in Reqs : effects[r].doc = 1 })
    /\ \A i, j \in 1 .. Len(docs) : docs[i]._id = docs[j]._id => i = j
    /\ (\A r \in Reqs : Succeeded(r)) =>
          /\ Cardinality(DOMAIN blobs) = MaxUploads
          /\ Len(docs) = MaxUploads

\* Every request succeeded, all with the same bytes and file name.
C10_Witness ==
    /\ \A r \in Reqs : Succeeded(r)
    /\ \A r, s \in Reqs : req[r].file = req[s].file /\ req[r].filename = req[s].filename
    /\ Cardinality(DOMAIN blobs) = MaxUploads
    /\ Len(docs) = MaxUploads

====
